---- MODULE Spec2Model ----
(***************************************************************************)
(* A model of the Lantern ray tracer (DSHS-ACT/lantern): the application   *)
(* driver (src/src/app.rs), the first-person camera (src/src/camera.rs),   *)
(* the progressive accumulator and the sphere intersector                  *)
(* (src/src/lantern/mod.rs).                                               *)
(*                                                                         *)
(* Numbers.  TLC has integers only, so every quantity is an integer in a   *)
(* stated unit:                                                            *)
(*   - lengths of the application's world are in 1/600 m and times in      *)
(*     1/6000 s, which makes movement_speed * time_step exact;             *)
(*   - rotation angles are whole quarter turns: one pixel of pointer       *)
(*     motion turns the camera a quarter turn (the code turns it 0.0014    *)
(*     rad), which keeps the forward vector on the integer lattice;        *)
(*   - a ray direction is kept as an integer vector that is a positive     *)
(*     multiple of the unit direction; trace_ray divides by its squared    *)
(*     magnitude, so which sphere is hit, and in which order, does not     *)
(*     depend on the multiple;                                             *)
(*   - a colour (Vector4<f32>) of the running sum is represented by its    *)
(*     alpha channel: per_pixel returns alpha 1.0 for every pixel, so the  *)
(*     alpha of a running-sum entry is the number of samples summed in it. *)
(***************************************************************************)
EXTENDS Integers, Sequences, FiniteSets, TLC

VARIABLES
    size,               \* Application.size: the window's inner size <<width, height>>
    show_egui,          \* Application.show_egui
    final_image,        \* Lantern.final_image: [size, pixels], the GPU texture
    final_image_data,   \* Lantern.final_image_data: the display buffer
    path_acc,           \* Lantern.path_acc: the running-sum buffer
    acc_counter,        \* Lantern.acc_counter
    settings,           \* Lantern.settings: [should_accumulate]
    camera,             \* Application.camera
    scene,              \* Application.scene: [spheres, materials]
    pc,                 \* where the event loop is: "idle", or the step of a frame
    rows,               \* the parallel pass: for each row task, the next x it handles
    writes,             \* the parallel pass: for each buffer slot, the row tasks that wrote it
    moved,              \* Application::update's value of camera.update(frame_time)
    last,               \* the last handler the event loop called, with its arguments
    ray,                \* trace_ray's argument: [origin, direction]
    spheres,            \* trace_ray's argument: scene.spheres
    hit,                \* trace_ray's result
    call,               \* a call of the camera on its own: its arguments and result
    pixel               \* a call of per_pixel on its own: its arguments and result

vars == <<size, show_egui, final_image, final_image_data, path_acc, acc_counter,
          settings, camera, scene, pc, rows, writes, moved, last, ray, spheres, hit,
          call, pixel>>

appVars == <<size, show_egui, final_image, final_image_data, path_acc, acc_counter,
             settings, camera, scene, pc, rows, writes, moved, last>>

traceVars == <<ray, spheres, hit>>

callVars == <<call, pixel>>

-----------------------------------------------------------------------------
(* Bounds of the model *)

\* The sample counter is followed up to this value.
MaxCounter == 3

\* The camera is followed while it is within this many full steps of its start.
MaxTravel == 1

\* The scene is followed while it differs from the initial one in this many fields.
MaxEdits == 1

\* trace_ray is applied to scenes of up to this many spheres.
MaxSpheres == 2

\* Window sizes the windowing layer reports (a zero dimension: a minimised window).
ViewportSizes == {<<0, 2>>, <<2, 0>>, <<1, 2>>, <<2, 2>>}

\* The size of the window when the application starts.
InitialSize == <<2, 2>>

\* Frame times, in ms, the event loop passes to Application::update.
FrameTimes == {0, 17}

\* Pointer positions of CursorMoved events.
MousePositions == {<<0, 0>>, <<2, 0>>}

\* Keys of KeyboardInput events.
Keys == {"W", "Escape"}

\* Frame times, in ms, Camera::update is applied to, and the pointer
\* positions that turned the camera it is applied to.
UpdateTimes == {0, 1, 16, 17, 18, 1000}

UpdateTurns == {<<0, 0>>, <<1, 0>>}

\* Pointer positions of the events the camera is driven with on its own:
\* the pointer also moves down, which pitches the camera.
CameraPositions == MousePositions \cup {<<0, 1>>}

\* The sample counter of a long run is followed while it is within this
\* many frames of its first value or of the largest value of a u32.
MaxRun == 40

\* Keys of the events the camera is driven with on its own.
CameraKeys == {"W", "C"}

\* Keys of the events Camera::input is applied to ("None": no virtual keycode).
InputKeys == {"W", "A", "S", "D", "Space", "LShift", "C", "Escape", "Q", "None"}

\* The camera rays and random vectors (in quarters, each component in
\* [-0.5, 0.5)) per_pixel is applied to (lengths in half metres): a ray along
\* the z axis and an oblique one, both through the point (0, 0, -1); a random
\* vector along that point's normal and one across it.
PixelRays == {[origin |-> <<0, 0, -4>>, direction |-> <<0, 0, 1>>],
              [origin |-> <<0, -2, -3>>, direction |-> <<0, 1, 1>>]}

PixelDraws == {<<0, 0, 1>>, <<-2, 0, 0>>}

\* The rays and the spheres trace_ray is applied to (lengths in half metres).
TraceOrigins == {<<0, 0, -4>>, <<0, 0, 0>>, <<0, 1, -3>>}

TraceDirections == {<<0, 0, 1>>, <<0, 0, -1>>, <<0, 1, 2>>, <<1, 0, 0>>}

TracePositions == {<<0, 0, 0>>, <<0, 0, 1>>, <<0, 2, 0>>}

TraceRadii == {0, 1, 2}

-----------------------------------------------------------------------------
(* Vectors *)

Min(a, b) == IF a < b THEN a ELSE b

Dot(u, v) == u[1] * v[1] + u[2] * v[2] + u[3] * v[3]

Cross(u, v) == <<u[2] * v[3] - u[3] * v[2],
                 u[3] * v[1] - u[1] * v[3],
                 u[1] * v[2] - u[2] * v[1]>>

Add(u, v) == <<u[1] + v[1], u[2] + v[2], u[3] + v[3]>>

Sub(u, v) == <<u[1] - v[1], u[2] - v[2], u[3] - v[3]>>

Scale(u, k) == <<u[1] * k, u[2] * k, u[3] * k>>

magnitude_squared(u) == Dot(u, u)

y_axis == <<0, 1, 0>>

z_axis == <<0, 0, 1>>

\* UnitQuaternion::from_axis_angle(axis, one quarter turn) * v, for an axis of
\* the lattice: (axis . v) axis + axis x v.  A zero axis gives a quaternion
\* with a zero vector part, which leaves v as it is.
QuarterTurn(axis, v) ==
    IF axis = <<0, 0, 0>> THEN v
    ELSE Add(Scale(axis, Dot(axis, v)), Cross(axis, v))

\* UnitQuaternion::from_axis_angle(axis, k quarter turns) * v
RECURSIVE Rotate(_, _, _)
Rotate(axis, k, v) ==
    IF k % 4 = 0 THEN v ELSE QuarterTurn(axis, Rotate(axis, (k % 4) - 1, v))

-----------------------------------------------------------------------------
(* Camera (src/src/camera.rs) *)

\* A key match without the arm of LShift
KeyIndex_NoLShift(key) ==
    CASE key = "W" -> 1
      [] key = "A" -> 2
      [] key = "S" -> 3
      [] key = "D" -> 4
      [] key = "Space" -> 5
      [] OTHER -> 0

\* The indices of Camera.inputs: W A S D Space LShift
KeyIndex(key) ==
    CASE key = "W" -> 1
      [] key = "A" -> 2
      [] key = "S" -> 3
      [] key = "D" -> 4
      [] key = "Space" -> 5
      [] key = "LShift" -> 6
      [] OTHER -> 0

\* Camera::rotation_speed, in quarter turns per pixel of pointer motion
rotation_speed == 1

movement_speed == 5

\* A time step that is not clamped
time_step_Unclamped(frame_time) == 6 * frame_time

\* The time step of Camera::update in 1/6000 s: min(frame_time / 1000, 1 / 60)
time_step(frame_time) == Min(6 * frame_time, 100)

\* The projection depends on the viewport through its aspect ratio only
\* (fov, near and far never change): it is kept as the size it was built from.
Projection(viewport_size) == viewport_size

reevaluate_projection(cam) ==
    [cam EXCEPT !.projection = Projection(cam.viewport_size)]

\* A view that is not rebuilt
reevaluate_view_Stale(cam) == cam

\* Isometry3::look_at_lh(position, position + forward, y_axis)
reevaluate_view(cam) ==
    [cam EXCEPT !.view = [eye |-> cam.position, dir |-> cam.forward]]

\* view.inverse_transform_vector(v): v in the basis (up x dir, dir x (up x dir), dir)
inverse_transform_vector(view, v) ==
    LET zaxis == view.dir
        xaxis == Cross(y_axis, zaxis)
        yaxis == Cross(zaxis, xaxis)
    IN  Add(Add(Scale(xaxis, v[1]), Scale(yaxis, v[2])), Scale(zaxis, v[3]))

\* The vector of pixel `index` (0-based) before it is normalised.  The
\* inverse projection of (2x/w - 1, 2y/h - 1, 1, 1) is (cx * aspect * t, cy * t,
\* -1) with a negative w, so the code negates it; with t = tan(fov / 2) taken
\* as 1/2 and the vector scaled by 2h this is (w - 2x, h - 2y, 2h).
Target(projection, width, index) ==
    LET y == index \div width
        x == index % width
        w == projection[1]
        h == projection[2]
    IN  <<w - 2 * x, h - 2 * y, 2 * h>>

\* The direction of pixel `index` (0-based): a positive multiple of the unit
\* direction the code stores.
RayDirection(projection, view, width, index) ==
    inverse_transform_vector(view, Target(projection, width, index))

\* Isometry3::look_at_lh normalises up x dir: for a direction along the up
\* axis that is the zero vector, and the rotation of the view is NaN.
ViewIsDefined(view) == Cross(y_axis, view.dir) # <<0, 0, 0>>

\* new_direction.magnitude_squared(), lines 223-228, as the fraction
\* [num, den] (0/0: NaN): the squared magnitude of the vector the view gives
\* for the normalised target.
RayMagnitudeSquared(projection, view, width, index) ==
    IF ViewIsDefined(view)
    THEN [num |-> magnitude_squared(RayDirection(projection, view, width, index)),
          den |-> magnitude_squared(Target(projection, width, index))]
    ELSE [num |-> 0, den |-> 0]

\* The assertion of reevaluate_rays, lines 226-229, holds for every pixel
RaysAsserted(cam) ==
    \A i \in 1..(cam.viewport_size[1] * cam.viewport_size[2]) :
        LET m == RayMagnitudeSquared(cam.projection, cam.view,
                                     cam.viewport_size[1], i - 1)
        IN  /\ m.den # 0
            /\ 9 * m.den <= 10 * m.num
            /\ 10 * m.num <= 11 * m.den

reevaluate_rays(cam) ==
    LET n == cam.viewport_size[1] * cam.viewport_size[2]
    IN  [cam EXCEPT !.rays =
            [i \in 1..n |-> RayDirection(cam.projection, cam.view,
                                         cam.viewport_size[1], i - 1)]]

CameraNew(viewport_size) ==
    LET position == <<0, 0, -600>>
        forward == z_axis
    IN  reevaluate_rays(
            [projection |-> Projection(viewport_size),
             view |-> [eye |-> position, dir |-> forward],
             position |-> position,
             forward |-> forward,
             rays |-> << >>,
             last_mouse |-> <<0, 0>>,
             viewport_size |-> viewport_size,
             inputs |-> [i \in 1..6 |-> FALSE],
             grab_mouse |-> FALSE])

\* Events of the windowing layer
CursorMoved(position) == [type |-> "CursorMoved", position |-> position]

KeyboardInput(state, key) == [type |-> "KeyboardInput", state |-> state, key |-> key]

MouseInput(state, button) == [type |-> "MouseInput", state |-> state, button |-> button]

\* A rotation that leaves the rays of the old direction
Turned_StaleRays(cam, position) ==
    LET delta == <<position[1] - cam.last_mouse[1], position[2] - cam.last_mouse[2]>>
        up == y_axis
        right == Cross(up, cam.forward)
        pitch_delta == delta[2] * rotation_speed
        yaw_delta == delta[1] * rotation_speed
        forward == Rotate(right, pitch_delta, Rotate(up, yaw_delta, cam.forward))
        turned == [cam EXCEPT !.last_mouse = position, !.forward = forward]
    IN  reevaluate_view(turned)

\* Camera::input, lines 70-93: the camera after a CursorMoved event at `position`
Turned(cam, position) ==
    LET delta == <<position[1] - cam.last_mouse[1], position[2] - cam.last_mouse[2]>>
        up == y_axis
        right == Cross(up, cam.forward)
        pitch_delta == delta[2] * rotation_speed
        yaw_delta == delta[1] * rotation_speed
        forward == Rotate(right, pitch_delta, Rotate(up, yaw_delta, cam.forward))
        turned == [cam EXCEPT !.last_mouse = position, !.forward = forward]
    IN  reevaluate_rays(reevaluate_view(turned))

\* A toggle that a release of C flips as well
TogglesGrab_AnyState(key, is_press) == key = "C"

\* The arm `VirtualKeyCode::C if is_press`, line 111
TogglesGrab(key, is_press) == key = "C" /\ is_press

\* A pointer that turns the camera while it is over the overlay
Rotates_Hovering(event, is_hovering) == event.type = "CursorMoved"

\* The arm `WindowEvent::CursorMoved { position, .. } if !is_hovering`, line 70
Rotates(event, is_hovering) == event.type = "CursorMoved" /\ ~is_hovering

\* Camera::input: the camera after the event, and the value returned
CameraInput(cam, event, is_hovering) ==
    IF Rotates(event, is_hovering) THEN
        [cam |-> Turned(cam, event.position), ret |-> TRUE]
    ELSE IF event.type = "KeyboardInput" THEN
        LET is_press == (event.state = "Pressed")
        IN  IF KeyIndex(event.key) > 0 THEN
                [cam |-> [cam EXCEPT !.inputs[KeyIndex(event.key)] = is_press],
                 ret |-> TRUE]
            ELSE IF TogglesGrab(event.key, is_press) THEN
                [cam |-> [cam EXCEPT !.grab_mouse = ~cam.grab_mouse], ret |-> TRUE]
            ELSE [cam |-> cam, ret |-> FALSE]
    ELSE [cam |-> cam, ret |-> FALSE]

\* Camera::update: the camera after the call, and the value returned
CameraUpdate(cam, frame_time) ==
    LET step == (movement_speed * time_step(frame_time)) \div 10   \* in 1/600 m
        up == y_axis
        right == Cross(up, cam.forward)
        p1 == IF cam.inputs[1] THEN Add(cam.position, Scale(cam.forward, step))
              ELSE cam.position
        p2 == IF cam.inputs[2] THEN Sub(p1, Scale(right, step)) ELSE p1
        p3 == IF cam.inputs[3] THEN Sub(p2, Scale(cam.forward, step)) ELSE p2
        p4 == IF cam.inputs[4] THEN Add(p3, Scale(right, step)) ELSE p3
        p5 == IF cam.inputs[5] THEN Add(p4, Scale(up, step)) ELSE p4
        p6 == IF cam.inputs[6] THEN Sub(p5, Scale(up, step)) ELSE p5
        has_moved == \E i \in 1..6 : cam.inputs[i]
        placed == [cam EXCEPT !.position = p6]
    IN  [cam |-> IF has_moved THEN reevaluate_rays(reevaluate_view(placed)) ELSE placed,
         ret |-> has_moved]

\* Camera::resize
CameraResize(cam, new_size) ==
    reevaluate_rays(reevaluate_projection([cam EXCEPT !.viewport_size = new_size]))

-----------------------------------------------------------------------------
(* Scene (src/src/lantern/scene.rs) and the scene of Application::new.     *)
(* Lengths in 1/600 m; albedo, roughness and metallic in tenths.           *)

Sphere(position, radius, material_index) ==
    [position |-> position, radius |-> radius, material_index |-> material_index]

Material(albedo, roughness, metallic) ==
    [albedo |-> albedo, roughness |-> roughness, metallic |-> metallic]

\* Material::default() with the albedo given
MaterialDefault(albedo) == Material(albedo, 10, 0)

InitialScene ==
    [spheres |-> <<Sphere(<<0, -60600, 0>>, 60000, 0), Sphere(<<0, 0, 0>>, 300, 1)>>,
     materials |-> <<MaterialDefault(<<2, 3, 10>>), MaterialDefault(<<10, 0, 10>>)>>]

-----------------------------------------------------------------------------
(* Lantern (src/src/lantern/mod.rs, src/src/lantern/texture.rs) *)

PixelCount(sz) == sz[1] * sz[2]

\* vec![Vector4::zeros(); n]
Zeros(n) == [i \in 1..n |-> 0]

\* The packed word written for a pixel whose running sum holds `sum` samples
\* and is divided by `counter`: vec4_to_rgba(accumulated / accumulated.max())
\* with accumulated = sum / counter.
Rgba(sum, counter) == [sum |-> sum, counter |-> counter]

\* vec![0; n] of packed words: the word 0 is the word of no sample
Blank(n) == [i \in 1..n |-> Rgba(0, 0)]

\* Image::new: a texture of the given size
ImageNew(sz) == [size |-> sz, pixels |-> Blank(PixelCount(sz))]

\* per_pixel's result for a pixel: Vector4::new(color.x, color.y, color.z, 1.0)
per_pixel(index) == 1

\* A resize that keeps the running sum of the old size
LanternResize_KeepSum(new_size) ==
    IF final_image.size = new_size
    THEN UNCHANGED <<final_image, final_image_data, path_acc>>
    ELSE /\ final_image' = ImageNew(new_size)
         /\ final_image_data' = Blank(PixelCount(new_size))
         /\ UNCHANGED path_acc

\* A resize without the early return for an equal size
LanternResize_Always(new_size) ==
    /\ final_image' = ImageNew(new_size)
    /\ final_image_data' = Blank(PixelCount(new_size))
    /\ path_acc' = Zeros(PixelCount(new_size))

\* Lantern::resize
LanternResize(new_size) ==
    IF final_image.size = new_size
    THEN UNCHANGED <<final_image, final_image_data, path_acc>>
    ELSE /\ final_image' = ImageNew(new_size)
         /\ final_image_data' = Blank(PixelCount(new_size))
         /\ path_acc' = Zeros(PixelCount(new_size))

\* A reset_counter that leaves the counter as it is
reset_counter_Keep == acc_counter

\* Lantern::reset_counter
reset_counter == 1

\* A pass that never zeroes the running sum
ZeroedIfFirst_Never(paths, counter) == paths

\* Lantern::update up to the start of the parallel pass
ZeroedIfFirst(paths, counter) ==
    IF counter = 1 THEN Zeros(Len(paths)) ELSE paths

\* A counter that is not set back to 1 when accumulation is off
NextCounter_NoRestart(counter, should_accumulate) ==
    IF should_accumulate THEN counter + 1 ELSE counter

\* Lantern::update after the parallel pass: the next value of the counter
NextCounter(counter, should_accumulate) ==
    IF should_accumulate THEN counter + 1 ELSE 1

-----------------------------------------------------------------------------
(* Lantern::trace_ray (src/src/lantern/mod.rs).  Coordinates are integers, *)
(* so the discriminant is an integer and a distance                        *)
(* (-second - sqrt(discriminant)) / (2 * first) is kept as the record      *)
(* [nb |-> -second, disc |-> discriminant, den |-> 2 * first]; the two     *)
(* comparisons the code makes on distances are decided exactly.            *)

Distance(second, discriminant, first) ==
    [nb |-> 0 - second, disc |-> discriminant, den |-> 2 * first]

\* distance < 0.0, for den > 0:  nb < sqrt(disc)
IsNegative(distance) ==
    distance.nb < 0 \/ distance.nb * distance.nb < distance.disc

\* l > sqrt(a) - sqrt(b), for integers l and a, b >= 0
ExceedsRootDifference(l, a, b) ==
    LET m == (a + b) - (l * l)
    IN  IF a = b THEN l > 0
        ELSE IF a > b THEN l > 0 /\ (m < 0 \/ 4 * a * b > m * m)
        ELSE l >= 0 \/ (m > 0 /\ 4 * a * b < m * m)

\* previous_distance > distance, for two distances of one ray (the same den)
IsGreater(previous_distance, distance) ==
    ExceedsRootDifference(previous_distance.nb - distance.nb,
                          previous_distance.disc, distance.disc)

\* The quadratic of one sphere, lines 185-192
Discriminant(r, sphere) ==
    LET origin == Sub(r.origin, sphere.position)
        first == magnitude_squared(r.direction)
        second == 2 * Dot(origin, r.direction)
        third == magnitude_squared(origin) - (sphere.radius * sphere.radius)
    IN  (second * second) - (4 * first * third)

NearRoot(r, sphere) ==
    LET origin == Sub(r.origin, sphere.position)
        first == magnitude_squared(r.direction)
        second == 2 * Dot(origin, r.direction)
    IN  Distance(second, Discriminant(r, sphere), first)

\* A loop without the test for a negative distance
IsSkipped_DiscriminantOnly(r, sphere) == Discriminant(r, sphere) < 0

\* Whether the sphere is skipped, lines 194-201
IsSkipped(r, sphere) ==
    Discriminant(r, sphere) < 0 \/ IsNegative(NearRoot(r, sphere))

\* A replacement on previous_distance >= distance
Replaces_OnTies(closest, distance) ==
    IF closest.some THEN ~IsGreater(distance, closest.distance) ELSE TRUE

\* Whether a sphere that is not skipped replaces the closest so far, lines 203-209
Replaces(closest, distance) ==
    IF closest.some THEN IsGreater(closest.distance, distance) ELSE TRUE

\* The loop of trace_ray from sphere i on, with the closest so far
RECURSIVE TraceFrom(_, _, _, _)
TraceFrom(r, list, i, closest) ==
    IF i > Len(list) THEN closest
    ELSE IF IsSkipped(r, list[i]) THEN TraceFrom(r, list, i + 1, closest)
    ELSE IF Replaces(closest, NearRoot(r, list[i]))
         THEN TraceFrom(r, list, i + 1,
                        [some |-> TRUE, sphere |-> i, distance |-> NearRoot(r, list[i])])
         ELSE TraceFrom(r, list, i + 1, closest)

\* A coordinate of a hit, (rat + irr * sqrt(disc)) / den, with the disc of the
\* hit's distance.  den = 0 is the result of a division by a zero radius: NaN
\* when the numerator is zero, an infinity otherwise.
Elem(rat, irr, den) == [rat |-> rat, irr |-> irr, den |-> den]

\* The sign of a + b * sqrt(d), for d >= 0
SurdSign(a, b, d) ==
    LET aa == a * a
        bbd == b * b * d
    IN  IF aa = bbd /\ (a * b <= 0 \/ bbd = 0) THEN 0
        ELSE IF a >= 0 /\ b >= 0 THEN 1
        ELSE IF a <= 0 /\ b <= 0 THEN 0 - 1
        ELSE IF a > 0 THEN (IF aa > bbd THEN 1 ELSE 0 - 1)
        ELSE (IF bbd > aa THEN 1 ELSE 0 - 1)

IsNaN(e, d) == e.den = 0 /\ SurdSign(e.rat, e.irr, d) = 0

\* The f32 comparison a == b: false when either is NaN
ElemEq(a, b, d) ==
    IF IsNaN(a, d) \/ IsNaN(b, d) THEN FALSE
    ELSE IF a.den = 0 \/ b.den = 0
         THEN a.den = b.den /\ SurdSign(a.rat, a.irr, d) = SurdSign(b.rat, b.irr, d)
    ELSE SurdSign(a.rat * b.den - b.rat * a.den, a.irr * b.den - b.irr * a.den, d) = 0

Abs(a) == IF a < 0 THEN 0 - a ELSE a

RECURSIVE Gcd(_, _)
Gcd(a, b) == IF b = 0 THEN Abs(a) ELSE Gcd(b, a % Abs(b))

\* The same value in lowest terms
Reduced(e) ==
    LET g == Gcd(Gcd(e.rat, e.irr), e.den)
    IN  IF g = 0 \/ e.den = 0 THEN e
        ELSE Elem(e.rat \div g, e.irr \div g, e.den \div g)

ElemAddInt(e, k) == Elem(e.rat + k * e.den, e.irr, e.den)

\* e / k, with the denominator kept non-negative
ElemDivInt(e, k) ==
    IF k < 0 THEN Elem(0 - e.rat, 0 - e.irr, e.den * (0 - k))
    ELSE Elem(e.rat, e.irr, e.den * k)

ElemMul(a, b, d) ==
    Reduced(Elem(a.rat * b.rat + a.irr * b.irr * d,
                 a.rat * b.irr + a.irr * b.rat,
                 a.den * b.den))

ElemAdd(a, b) ==
    Reduced(Elem(a.rat * b.den + b.rat * a.den,
                 a.irr * b.den + b.irr * a.den,
                 a.den * b.den))

\* origin + direction * distance, one coordinate: o + dk * (nb - sqrt(disc)) / den
Along(o, dk, distance) ==
    Reduced(Elem(o * distance.den + dk * distance.nb, 0 - dk, distance.den))

\* Unit::renormalize_fast (nalgebra): the vector times 0.5 * (3 - norm_squared)
renormalize_fast(v, d) ==
    LET sq == ElemAdd(ElemAdd(ElemMul(v[1], v[1], d), ElemMul(v[2], v[2], d)),
                      ElemMul(v[3], v[3], d))
        factor == Elem(3 * sq.den - sq.rat, 0 - sq.irr, 2 * sq.den)
    IN  [k \in 1..3 |-> ElemMul(v[k], factor, d)]

\* Lantern::closest_hit
closest_hit(r, distance, sphere) ==
    LET fake_origin == Sub(r.origin, sphere.position)
        fake_position == [k \in 1..3 |-> Along(fake_origin[k], r.direction[k], distance)]
        normal == [k \in 1..3 |-> ElemDivInt(fake_position[k], sphere.radius)]
        position == [k \in 1..3 |-> ElemAddInt(fake_position[k], sphere.position[k])]
    IN  [distance |-> distance,
         position |-> position,
         normal |-> renormalize_fast(normal, distance.disc)]

\* Lantern::trace_ray: None, or the payload of the sphere hit (with its place
\* in the list for the reference to it)
trace_ray(r, list) ==
    LET closest == TraceFrom(r, list, 1, [some |-> FALSE])
    IN  IF closest.some
        THEN LET payload == closest_hit(r, closest.distance, list[closest.sphere])
             IN  [some |-> TRUE, sphere |-> closest.sphere,
                  distance |-> payload.distance,
                  position |-> payload.position,
                  normal |-> payload.normal]
        ELSE [some |-> FALSE]

-----------------------------------------------------------------------------
(* Lantern::per_pixel (src/src/lantern/mod.rs), lines 112-157.  A point or *)
(* vector with rational coordinates is [num, den]: the integer vector num  *)
(* over the positive integer den.  A colour is the sum of a rational part  *)
(* (the sky) and of the lit terms albedo * intensity * multiplier, whose   *)
(* intensity (normal . (1, 1, -1)) / sqrt(3) is kept as the element of     *)
(* Q(sqrt(disc)) that the normal gives.                                    *)

BOUNCE_LIMIT == 2

\* The sky colour (0.6, 0.7, 0.9) and the decay 0.7, in tenths
SkyTenths == <<6, 7, 9>>

DecayTenths == 7

\* random_vec(-0.5..0.5) is v / RandDen for a vector v of PixelDraws
RandDen == 4

\* The offset of a bounce's origin along the normal (0.0001 in the code) is
\* 1 / OffsetDen of the length unit
OffsetDen == 8

RVec(num, den) == [num |-> num, den |-> den]

\* The same vector with the least denominator
RVecReduced(v) ==
    LET g == Gcd(Gcd(Gcd(v.num[1], v.num[2]), v.num[3]), v.den)
    IN  IF g = 0 THEN v
        ELSE RVec(<<v.num[1] \div g, v.num[2] \div g, v.num[3] \div g>>, v.den \div g)

RVecAdd(a, b) ==
    RVecReduced(RVec(Add(Scale(a.num, b.den), Scale(b.num, a.den)), a.den * b.den))

RVecDiv(a, k) == RVecReduced(RVec(a.num, a.den * k))

\* The positive multiple of an integer vector with coprime coordinates
Primitive(v) ==
    LET g == Gcd(Gcd(v[1], v[2]), v[3])
    IN  IF g = 0 THEN v ELSE <<v[1] \div g, v[2] \div g, v[3] \div g>>

\* The integer square root
RECURSIVE RootFrom(_, _)
RootFrom(n, s) == IF (s + 1) * (s + 1) > n THEN s ELSE RootFrom(n, s + 1)

IsSquare(n) == n >= 0 /\ RootFrom(n, 0) * RootFrom(n, 0) = n

\* The rational vector of three elements of Q(sqrt(d)), for a square d
Rational(v, d) ==
    LET root == RootFrom(d, 0)
        n == [k \in 1..3 |-> v[k].rat + v[k].irr * root]
        den == v[1].den * v[2].den * v[3].den
    IN  RVecReduced(RVec(<<n[1] * v[2].den * v[3].den,
                           n[2] * v[1].den * v[3].den,
                           n[3] * v[1].den * v[2].den>>, den))

\* The spheres in the length unit 1 / k
Scaled(list, k) ==
    [i \in 1..Len(list) |->
        [list[i] EXCEPT !.position = Scale(@, k), !.radius = @ * k]]

\* A sky colour that ignores the multiplier
SkyTerm_Unscaled(multiplier) == RVec(SkyTenths, 10)

\* sky * multiplier, lines 130-131
SkyTerm(multiplier) ==
    RVecReduced(RVec(Scale(SkyTenths, multiplier.num), 10 * multiplier.den))

\* normal.dot(&-light_direction).max(0.0), in units of 1 / sqrt(3), line 140
Intensity(normal, d) ==
    LET dot == ElemAdd(ElemAdd(normal[1], normal[2]),
                       Elem(0 - normal[3].rat, 0 - normal[3].irr, normal[3].den))
    IN  IF dot.den # 0 /\ SurdSign(dot.rat, dot.irr, d) > 0
        THEN [value |-> dot, disc |-> d]
        ELSE [value |-> Elem(0, 0, 1), disc |-> 0]

\* A reflection axis that takes every material for a rough one
ReflectionAxis_Rough(normal, roughness, draw) ==
    Primitive(RVecAdd(normal, RVec(Scale(draw, 10), 10 * RandDen)).num)

\* normal + roughness * random_vec(-0.5..0.5), up to the normalisation, line 151
ReflectionAxis(normal, roughness, draw) ==
    Primitive(RVecAdd(normal, RVec(Scale(draw, roughness), 10 * RandDen)).num)

\* Reflection3::new(axis, 0.0).reflect(direction), up to a positive factor, line 153
Reflect(axis, direction) ==
    Primitive(Sub(Scale(direction, Dot(axis, axis)),
                  Scale(axis, 2 * Dot(axis, direction))))

\* `let name = value;` of the code: body applied to the value, computed once
Let(value, body(_)) == CHOOSE out \in {body(v) : v \in {value}} : TRUE

\* The loop of per_pixel from iteration i on.  r is the ray, [origin (a
\* rational point), direction]; color the colour so far; traced the number
\* of calls of trace_ray; hits what each hit was and did.
RECURSIVE Bounce(_, _, _, _, _, _, _, _)
Bounce(sc, r, draws, i, color, multiplier, traced, hits) ==
    IF i > BOUNCE_LIMIT
    THEN [status |-> "returned", color |-> color, alpha |-> 1,
          traced |-> traced, hits |-> hits]
    ELSE
    Let(trace_ray([origin |-> r.origin.num, direction |-> r.direction],
                  Scaled(sc.spheres, r.origin.den)), LAMBDA h :
        IF ~h.some
        THEN [status |-> "returned",
              color |-> [color EXCEPT !.sky = RVecAdd(@, SkyTerm(multiplier))],
              alpha |-> 1, traced |-> traced + 1, hits |-> hits]
        ELSE
        LET sphere == sc.spheres[h.sphere]
        IN  IF sphere.material_index >= Len(sc.materials)
            THEN [status |-> "panic", traced |-> traced + 1, hits |-> hits]
            ELSE
            LET material == sc.materials[sphere.material_index + 1]
                term == [albedo |-> material.albedo,
                         intensity |-> Intensity(h.normal, h.distance.disc),
                         multiplier |-> multiplier]
                lit == [color EXCEPT !.lit = Append(@, term)]
                decayed == [num |-> multiplier.num * DecayTenths,
                            den |-> multiplier.den * 10]
            IN  IF i = BOUNCE_LIMIT
                THEN [status |-> "returned", color |-> lit, alpha |-> 1,
                      traced |-> traced + 1,
                      hits |-> Append(hits, [sphere |-> h.sphere,
                                             roughness |-> material.roughness])]
                ELSE IF ~IsSquare(h.distance.disc) \/ sphere.radius = 0
                THEN [status |-> "unrepresentable", traced |-> traced + 1, hits |-> hits]
                ELSE
                Let(RVecDiv(Rational(h.position, h.distance.disc), r.origin.den),
                    LAMBDA position :
                Let(Rational(h.normal, h.distance.disc), LAMBDA normal :
                Let(Reflect(ReflectionAxis(normal, material.roughness, draws[i]),
                            r.direction), LAMBDA direction :
                    Bounce(sc, [origin |-> RVecAdd(position, RVecDiv(normal, OffsetDen)),
                                direction |-> direction],
                           draws, i + 1, lit, decayed, traced + 1,
                           Append(hits, [sphere |-> h.sphere,
                                         roughness |-> material.roughness,
                                         normal |-> normal,
                                         incoming |-> r.direction,
                                         outgoing |-> direction]))))))

\* Lantern::per_pixel for the camera ray given, with the random vectors drawn
PerPixel(sc, camera_ray, draws) ==
    Bounce(sc, [origin |-> RVec(camera_ray.origin, 1), direction |-> camera_ray.direction],
           draws, 1, [sky |-> RVec(<<0, 0, 0>>, 1), lit |-> << >>],
           [num |-> 1, den |-> 1], 0, << >>)

-----------------------------------------------------------------------------
(* Application (src/src/app.rs) and the event loop *)

\* What the user does in the settings overlay during one frame.
SphereEdits ==
    {[kind |-> "sphere", index |-> i, field |-> "position", vector |-> v] :
        i \in 1..2, v \in {<<0, 0, 0>>, <<0, 0, 600>>}}
    \cup {[kind |-> "sphere", index |-> i, field |-> "radius", value |-> v] :
        i \in 1..2, v \in {300, 0}}
    \cup {[kind |-> "sphere", index |-> i, field |-> "material_index", value |-> v] :
        i \in 1..2, v \in 0..2}

MaterialEdits ==
    {[kind |-> "material", index |-> i, field |-> "albedo", vector |-> v] :
        i \in 1..2, v \in {<<10, 0, 10>>, <<10, 10, 10>>}}
    \cup {[kind |-> "material", index |-> i, field |-> "roughness", value |-> v] :
        i \in 1..2, v \in {0, 10}}
    \cup {[kind |-> "material", index |-> i, field |-> "metallic", value |-> v] :
        i \in 1..2, v \in {0, 10}}

\* The checkbox "Accumulate?" and the button "Reset"
Controls == {[kind |-> "none"], [kind |-> "accumulate"], [kind |-> "reset"]}

Interactions == Controls \cup SphereEdits \cup MaterialEdits

\* The value a widget writes: a vector (position, albedo) or a number
Written(edit) == IF "vector" \in DOMAIN edit THEN edit.vector ELSE edit.value

EditScene_AnyIndex(sc, edit) ==
    IF edit.kind = "sphere" THEN
        [sc EXCEPT !.spheres[edit.index][edit.field] = Written(edit)]
    ELSE IF edit.kind = "material" THEN
        [sc EXCEPT !.materials[edit.index][edit.field] = Written(edit)]
    ELSE sc

\* The scene after the widget of `edit` has written its value
EditScene(sc, edit) ==
    IF edit.kind = "sphere" THEN
        IF edit.field = "material_index" /\ edit.value >= Len(sc.materials) THEN sc
        ELSE [sc EXCEPT !.spheres[edit.index][edit.field] = Written(edit)]
    ELSE IF edit.kind = "material" THEN
        [sc EXCEPT !.materials[edit.index][edit.field] = Written(edit)]
    ELSE sc

\* The number of fields in which a scene differs from the initial one
Edited(sc) ==
    Cardinality({<<i, f>> \in (1..2) \X {"position", "radius", "material_index"} :
                    sc.spheres[i][f] # InitialScene.spheres[i][f]})
    + Cardinality({<<i, f>> \in (1..2) \X {"albedo", "roughness", "metallic"} :
                    sc.materials[i][f] # InitialScene.materials[i][f]})

\* The events that open and close the overlay
OverlayEvents == {MouseInput(st, "Right") : st \in {"Pressed", "Released"}}

Events ==
    {CursorMoved(p) : p \in MousePositions}
    \cup {KeyboardInput(st, k) : st \in {"Pressed", "Released"}, k \in Keys}
    \cup OverlayEvents

\* Application::new, but for the camera
InitWindow ==
    /\ size = InitialSize
    /\ show_egui = FALSE
    /\ final_image = ImageNew(InitialSize)
    /\ final_image_data = Blank(PixelCount(InitialSize))
    /\ path_acc = Zeros(PixelCount(InitialSize))
    /\ acc_counter = 1
    /\ settings = [should_accumulate |-> TRUE]
    /\ scene = InitialScene
    /\ pc = "idle"
    /\ rows = << >>
    /\ writes = << >>
    /\ moved = FALSE
    /\ last = [op |-> "new", how |-> "new"]

\* Application::new
InitApp ==
    /\ InitWindow
    /\ camera = CameraNew(InitialSize)

\* No ray is being traced
InitIdleTrace ==
    /\ ray = [origin |-> <<0, 0, 0>>, direction |-> z_axis]
    /\ spheres = << >>
    /\ hit = [status |-> "none"]

\* Neither the camera nor per_pixel is called on its own
InitIdleCalls ==
    /\ call = [op |-> "none"]
    /\ pixel = [status |-> "none"]

Init == InitApp /\ InitIdleTrace /\ InitIdleCalls

\* Application::resize
AppResize(new_size) ==
    /\ pc = "idle"
    /\ IF new_size[1] = 0 \/ new_size[2] = 0
       THEN UNCHANGED <<size, final_image, final_image_data, path_acc, camera>>
       ELSE /\ size' = new_size
            /\ LanternResize(new_size)
            /\ camera' = CameraResize(camera, new_size)
    /\ last' = [op |-> "resize",
                 how |-> IF new_size[1] = 0 \/ new_size[2] = 0 THEN "zero"
                         ELSE IF new_size = final_image.size THEN "same"
                         ELSE "other"]
    /\ UNCHANGED <<show_egui, acc_counter, settings, scene, pc, rows, moved>>
    /\ UNCHANGED <<writes, traceVars, callVars>>

\* Application::input, lines 391-411.  `consumed` is what egui_state.on_event
\* answers and `is_hovering` what egui_context.is_pointer_over_area answers.
\* The call panics when the assertion of reevaluate_rays fails.
ApplicationInput(event, consumed, is_hovering) ==
    /\ IF consumed THEN
            /\ UNCHANGED <<show_egui, camera, acc_counter>>
            /\ last' = [op |-> "input", how |-> "egui"]
       ELSE IF event.type = "MouseInput" /\ event.state = "Pressed"
                /\ event.button = "Right" THEN
            /\ show_egui' = ~show_egui
            /\ UNCHANGED <<camera, acc_counter>>
            /\ last' = [op |-> "input", how |-> "overlay"]
       ELSE LET r == CameraInput(camera, event, is_hovering)
            IN  /\ camera' = r.cam
                /\ acc_counter' = IF r.ret /\ event.type = "CursorMoved"
                                  THEN reset_counter ELSE acc_counter
                /\ UNCHANGED show_egui
                /\ last' = [op |-> "input",
                             how |-> IF r.ret THEN event.type ELSE "ignored"]
    /\ pc' = IF RaysAsserted(camera') THEN pc ELSE "panic"
    /\ UNCHANGED <<size, final_image, final_image_data, path_acc, settings,
                   scene, rows, moved>>
    /\ UNCHANGED <<writes, traceVars>>

\* A window event reaches Application::input
AppInput(event, consumed, is_hovering) ==
    /\ pc = "idle"
    /\ ApplicationInput(event, consumed, is_hovering)
    /\ UNCHANGED callVars

\* Whether a camera position is within the travel followed
InTravel(position) ==
    \A i \in 1..3 :
        /\ position[i] - CameraNew(InitialSize).position[i] <= MaxTravel * 50
        /\ CameraNew(InitialSize).position[i] - position[i] <= MaxTravel * 50

\* Application::update, lines 304-306: the camera moves, and resets the counter
AppUpdate(frame_time) ==
    /\ pc = "idle"
    /\ LET r == CameraUpdate(camera, frame_time)
           counter == IF r.ret THEN reset_counter ELSE acc_counter
       IN  /\ InTravel(r.cam.position)
           /\ counter < MaxCounter \/ ~settings.should_accumulate
           /\ camera' = r.cam
           /\ moved' = r.ret
           /\ acc_counter' = counter
    /\ pc' = "lantern_update"
    /\ last' = [op |-> "update", how |-> "frame"]
    /\ UNCHANGED <<size, show_egui, final_image, final_image_data, path_acc,
                   settings, scene, rows>>
    /\ UNCHANGED <<writes, traceVars, callVars>>

\* An index without the row stride
PixelIndex_NoStride(y, width, x) == y + x

\* The buffer slot of pixel (x, y), line 83
PixelIndex(y, width, x) == (y * width) + x

\* A pass that does not wait for its row tasks
PassJoined_NoBarrier(rws, width) == TRUE

\* into_par_iter().for_each returns: every row task has handled its row
PassJoined(rws, width) == \A y \in DOMAIN rws : rws[y] = width

\* Lantern::update, lines 66-78: the lazy zeroing, then one task per row
LanternUpdateBegin ==
    /\ pc = "lantern_update"
    /\ path_acc' = ZeroedIfFirst(path_acc, acc_counter)
    /\ rows' = [y \in 0..(final_image.size[2] - 1) |-> 0]
    /\ writes' = [i \in 1..Len(path_acc) |-> << >>]
    /\ pc' = "rows"
    /\ UNCHANGED <<size, show_egui, final_image, final_image_data, acc_counter,
                   settings, camera, scene, moved, last>>
    /\ UNCHANGED <<traceVars, callVars>>

\* Lantern::update, lines 82-95: the task of row y handles its next pixel.
\* per_pixel's camera.rays[index] is bounds-checked and panics; the writes
\* through path_ptr and image_ptr are not, and are undefined out of bounds.
RowStep(y) ==
    /\ pc = "rows"
    /\ y \in DOMAIN rows
    /\ rows[y] < final_image.size[1]
    /\ LET x == rows[y]
           index == PixelIndex(y, final_image.size[1], x)
       IN  IF index >= Len(camera.rays) THEN
                /\ pc' = "panic"
                /\ UNCHANGED <<path_acc, final_image_data, rows, writes>>
           ELSE IF index >= Len(path_acc) \/ index >= Len(final_image_data) THEN
                /\ pc' = "undefined"
                /\ UNCHANGED <<path_acc, final_image_data, rows, writes>>
           ELSE /\ writes' = [writes EXCEPT ![index + 1] = Append(@, y)]
                /\ path_acc' = [path_acc EXCEPT ![index + 1] = @ + per_pixel(index)]
                /\ final_image_data' =
                        [final_image_data EXCEPT
                            ![index + 1] = Rgba(path_acc'[index + 1], acc_counter)]
                /\ rows' = [rows EXCEPT ![y] = x + 1]
                /\ pc' = pc
    /\ UNCHANGED <<size, show_egui, final_image, acc_counter, settings, camera,
                   scene, moved, last>>
    /\ UNCHANGED <<traceVars, callVars>>

\* Lantern::update, lines 99-105: every row task has finished; the display
\* buffer is uploaded (Image::load_image asserts its length) and the counter
\* changes.
LanternUpdateEnd ==
    /\ pc = "rows"
    /\ PassJoined(rows, final_image.size[1])
    /\ IF PixelCount(final_image.size) # Len(final_image_data) THEN
            /\ pc' = "panic"
            /\ UNCHANGED <<final_image, acc_counter>>
       ELSE /\ final_image' = [final_image EXCEPT !.pixels = final_image_data]
            /\ acc_counter' = NextCounter(acc_counter, settings.should_accumulate)
            /\ pc' = "grab"
    /\ rows' = << >>
    /\ writes' = << >>
    /\ UNCHANGED <<size, show_egui, final_image_data, path_acc, settings, camera,
                   scene, moved, last>>
    /\ UNCHANGED <<traceVars, callVars>>

\* A pointer put at the far corner of the window
Recentred_Corner(cam, sz) == [cam EXCEPT !.last_mouse = sz]

\* Lines 310-316: last_mouse becomes PhysicalPosition::new(width / 2,
\* height / 2), a division of u32
Recentred(cam, sz) == [cam EXCEPT !.last_mouse = <<sz[1] \div 2, sz[2] \div 2>>]

\* Application::update, lines 309-317: the pointer is recentred
AppUpdateEnd ==
    /\ pc = "grab"
    /\ camera' = IF camera.grab_mouse THEN Recentred(camera, size) ELSE camera
    /\ pc' = "render"
    /\ UNCHANGED <<size, show_egui, final_image, final_image_data, path_acc,
                   acc_counter, settings, scene, rows, moved, last>>
    /\ UNCHANGED <<writes, traceVars, callVars>>

\* Application::render, and Application::update_egui when the overlay is shown
AppRender(ui) ==
    /\ pc = "render"
    /\ IF show_egui THEN
            /\ settings' = IF ui.kind = "accumulate"
                           THEN [should_accumulate |-> ~settings.should_accumulate]
                           ELSE settings
            /\ acc_counter' = IF ui.kind = "reset" THEN reset_counter ELSE acc_counter
            /\ scene' = EditScene(scene, ui)
            /\ Edited(scene') <= MaxEdits
            /\ last' = [op |-> "render", how |-> ui.kind]
       ELSE /\ ui.kind = "none"
            /\ UNCHANGED <<settings, acc_counter, scene>>
            /\ last' = [op |-> "render", how |-> "hidden"]
    /\ pc' = "idle"
    /\ UNCHANGED <<size, show_egui, final_image, final_image_data, path_acc,
                   camera, rows, moved>>
    /\ UNCHANGED <<writes, traceVars, callVars>>

\* The event loop: window events while idle, and the frame of RedrawRequested.
\* The camera is driven and the overlay is used for its checkbox and button.
Next ==
    \/ \E new_size \in ViewportSizes : AppResize(new_size)
    \/ \E event \in Events, consumed \in BOOLEAN, is_hovering \in BOOLEAN :
            AppInput(event, consumed, is_hovering)
    \/ \E frame_time \in FrameTimes : AppUpdate(frame_time)
    \/ LanternUpdateBegin
    \/ \E y \in DOMAIN rows : RowStep(y)
    \/ LanternUpdateEnd
    \/ AppUpdateEnd
    \/ \E ui \in Controls : AppRender(ui)

Spec == Init /\ [][Next]_vars

\* The same event loop with the overlay's scene editor used and the camera
\* left where it is.
NextOverlay ==
    \/ \E new_size \in ViewportSizes : AppResize(new_size)
    \/ \E event \in OverlayEvents, consumed \in BOOLEAN, is_hovering \in BOOLEAN :
            AppInput(event, consumed, is_hovering)
    \/ \E frame_time \in FrameTimes : AppUpdate(frame_time)
    \/ LanternUpdateBegin
    \/ \E y \in DOMAIN rows : RowStep(y)
    \/ LanternUpdateEnd
    \/ AppUpdateEnd
    \/ \E ui \in Interactions : AppRender(ui)

SpecOverlay == Init /\ [][NextOverlay]_vars

-----------------------------------------------------------------------------
(* The accumulator's claims *)

\* Whether the pass in progress has handled pixel i (1-based) of the buffers
Handled(i) ==
    LET width == final_image.size[1]
        y == (i - 1) \div width
        x == (i - 1) % width
    IN  y \in DOMAIN rows /\ x < rows[y]

\* C1: after Lantern::reset_counter (called for a CursorMoved event the camera
\* consumed, for a camera that moved, and for the overlay's Reset button) the
\* sample counter is 1, and in the pass that follows every entry of the
\* running sum is zero until that pass adds the pixel's colour to it: an entry
\* the pass has not handled holds no sample, an entry it has handled holds one.
C1_ResetZeroesBeforeAdding ==
    /\ (last.op = "input" /\ last.how = "CursorMoved") => acc_counter = 1
    /\ (last.op = "render" /\ last.how = "reset") => acc_counter = 1
    /\ (pc = "lantern_update" /\ moved) => acc_counter = 1
    /\ (pc = "rows" /\ acc_counter = 1) =>
            \A i \in 1..Len(path_acc) :
                path_acc[i] = IF Handled(i) THEN per_pixel(i - 1) ELSE 0

\* A pass that follows a reset by the moving camera, on a buffer that held two
\* samples per pixel, with an entry still to be handled
C1_Witness ==
    /\ pc = "rows"
    /\ moved
    /\ acc_counter = 1
    /\ final_image.pixels[1].sum >= 2
    /\ \E i \in 1..Len(path_acc) : ~Handled(i) /\ path_acc[i] = 0
    /\ \E i \in 1..Len(path_acc) : Handled(i)

\* C2: Lantern::update changes the sample counter exactly once, in the step
\* that follows the last pixel: to counter + 1 when should_accumulate is set
\* and to 1 otherwise.
C2_CounterChangesOnceAtEnd ==
    [][(pc = "lantern_update" \/ pc = "rows") =>
        (IF pc' = "grab"
         THEN /\ \A y \in DOMAIN rows : rows[y] = final_image.size[1]
              /\ acc_counter' = (IF settings.should_accumulate
                                 THEN acc_counter + 1 ELSE 1)
         ELSE acc_counter' = acc_counter)]_vars

\* A frame divided by 2 has ended with accumulation switched off
C2_Witness ==
    /\ pc = "grab"
    /\ ~settings.should_accumulate
    /\ acc_counter = 1
    /\ final_image.pixels[1].counter = 2

\* C3: after Application::resize to a different non-zero size the running sum
\* is all zero and the sample counter is 1.
C3_ResizeResets ==
    (last.op = "resize" /\ last.how = "other") =>
        /\ \A i \in 1..Len(path_acc) : path_acc[i] = 0
        /\ acc_counter = 1

\* C4: a step of the overlay that changes the scene leaves the sample counter
\* at 1, so that the next pass zeroes the running sum.
C4_EditResets == [][scene' # scene => acc_counter' = 1]_vars

\* C29: in every state every sphere's material_index is an index of
\* scene.materials, whatever the overlay has written, so that
\* scene.materials[sphere.material_index] in per_pixel is within bounds.
C29_MaterialIndexInBounds ==
    \A i \in 1..Len(scene.spheres) :
        /\ scene.spheres[i].material_index >= 0
        /\ scene.spheres[i].material_index < Len(scene.materials)

\* The overlay has given a sphere another material
C29_Witness ==
    \E i \in 1..Len(scene.spheres) :
        scene.spheres[i].material_index # InitialScene.spheres[i].material_index

\* C5: a step that changes the camera's position or forward direction leaves
\* the sample counter at 1, the pass of a camera that moved starts with the
\* counter at 1, and so does the idle time after a CursorMoved event the
\* camera consumed.
C5_CameraChangeResets ==
    [][((camera'.position # camera.position \/ camera'.forward # camera.forward)
            => acc_counter' = 1)
       /\ ((pc' = "lantern_update" /\ moved') => acc_counter' = 1)
       /\ ((last'.op = "input" /\ last'.how = "CursorMoved")
            => acc_counter' = 1)]_vars

\* The pass of a moved camera is about to start, after a frame divided by 2
C5_Witness ==
    /\ pc = "lantern_update"
    /\ moved
    /\ camera.position # CameraNew(InitialSize).position
    /\ camera.forward # CameraNew(InitialSize).forward
    /\ acc_counter = 1
    /\ final_image.pixels[1].counter = 2

\* C6: in every pass the running sum of a pixel holds, when it is divided,
\* exactly as many samples as the counter it is divided by (the k-th pass
\* after an invalidation: k), and before the addition one fewer (after an
\* invalidation: none).
C6_SumHoldsCounterSamples ==
    pc = "rows" =>
        \A i \in 1..Len(path_acc) :
            path_acc[i] = IF Handled(i) THEN acc_counter ELSE acc_counter - 1

\* C7: between and during frames the running sum, the display buffer and the
\* camera's rays each have one entry per pixel of the output image, no index
\* of a pass is out of bounds and the assertion of load_image holds.
C7_BufferLengths ==
    /\ Len(path_acc) = PixelCount(final_image.size)
    /\ Len(final_image_data) = PixelCount(final_image.size)
    /\ Len(camera.rays) = PixelCount(final_image.size)
    /\ Len(final_image.pixels) = PixelCount(final_image.size)
    /\ pc \notin {"panic", "undefined"}

\* A frame has been drawn at a size other than the initial one
C7_Witness ==
    /\ pc = "grab"
    /\ final_image.size # InitialSize
    /\ final_image.pixels[1].counter >= 1

\* C8: a resize to the size the output image has changes neither the running
\* sum, nor the display buffer, nor the output image, nor the sample counter.
C8_SameSizeNoOp ==
    [][(last'.op = "resize" /\ last'.how = "same") =>
        UNCHANGED <<path_acc, final_image_data, final_image, acc_counter>>]_vars

\* A resize to the same size has left two samples per pixel in place
C8_Witness ==
    /\ last.op = "resize"
    /\ last.how = "same"
    /\ acc_counter = 3
    /\ \A i \in 1..Len(path_acc) : path_acc[i] = 2
    /\ final_image.pixels[1].counter = 2

\* C15: in a pass, under every interleaving of the row tasks, a slot of the
\* running sum and of the display buffer is written at most once, by the
\* task of row index / width, and when the tasks have finished every slot in
\* [0, width * height) has been written exactly once.
C15_OneWriterPerSlot ==
    pc = "rows" =>
        /\ Len(writes) = PixelCount(final_image.size)
        /\ \A i \in 1..Len(writes) :
            /\ Len(writes[i]) <= 1
            /\ \A k \in 1..Len(writes[i]) :
                    writes[i][k] = (i - 1) \div final_image.size[1]
            /\ PassJoined(rows, final_image.size[1]) => Len(writes[i]) = 1

\* Two row tasks have each written the first slot of their row
C15_Witness ==
    /\ pc = "rows"
    /\ final_image.size = <<2, 2>>
    /\ rows[0] = 1
    /\ rows[1] = 1
    /\ writes = <<<<0>>, << >>, <<1>>, << >>>>

\* C16: the image presented holds, in every pixel, a word of the same pass
\* (divided by the same counter), and during a pass every word written so
\* far was divided by the counter the pass runs with: the upload and the
\* change of the counter wait for the last row task.
C16_WholeFramesOnly ==
    /\ \A i \in 1..Len(final_image.pixels) :
            final_image.pixels[i].counter = final_image.pixels[1].counter
    /\ pc = "rows" =>
            \A i \in 1..Len(final_image_data) :
                Handled(i) => final_image_data[i].counter = acc_counter

\* The second frame of an accumulation has been presented whole
C16_Witness ==
    /\ pc = "grab"
    /\ final_image.size = <<2, 2>>
    /\ \A i \in 1..4 : final_image.pixels[i] = Rgba(2, 2)

\* C27: whenever Lantern::update has divided the running sum of a pixel, the
\* sum held as many samples (its alpha) as the counter it was divided by: in
\* every word of the display buffer that a pass wrote, across updates,
\* resets of the counter, resizes and switches of should_accumulate, the
\* alpha of the sum equals the divisor.
C27_DividesSamplesByTheirNumber ==
    \A i \in 1..Len(final_image_data) :
        final_image_data[i] # Rgba(0, 0) =>
            final_image_data[i].sum = final_image_data[i].counter

-----------------------------------------------------------------------------
(* trace_ray applied to a ray and a list of spheres *)

TraceSpheres == {Sphere(p, r, 0) : p \in TracePositions, r \in TraceRadii}

RECURSIVE SeqsUpTo(_, _)
SeqsUpTo(S, n) ==
    IF n = 0 THEN {<< >>}
    ELSE LET shorter == SeqsUpTo(S, n - 1)
         IN  shorter \cup {Append(q, e) : q \in {t \in shorter : Len(t) = n - 1}, e \in S}

InitTrace ==
    /\ InitApp
    /\ ray \in [origin : TraceOrigins, direction : TraceDirections]
    /\ spheres \in SeqsUpTo(TraceSpheres, MaxSpheres)
    /\ hit = [status |-> "pending"]
    /\ InitIdleCalls

TraceRay ==
    /\ hit.status = "pending"
    /\ hit' = [status |-> "returned", value |-> trace_ray(ray, spheres)]
    /\ UNCHANGED <<ray, spheres>>
    /\ UNCHANGED <<appVars, callVars>>

NextTrace == TraceRay

SpecTrace == InitTrace /\ [][NextTrace]_vars

-----------------------------------------------------------------------------
(* The camera called on its own: any sequence of input, update and resize  *)
(* after Camera::new.                                                      *)

CameraEvents ==
    {CursorMoved(p) : p \in CameraPositions}
    \cup {KeyboardInput(st, k) : st \in {"Pressed", "Released"}, k \in CameraKeys}

\* Camera::input.  When the assertion of reevaluate_rays fails, the call
\* panics with the ray array replaced by the empty one of line 195.
CamInput(event, is_hovering) ==
    /\ pc = "idle"
    /\ LET r == CameraInput(camera, event, is_hovering)
       IN  IF RaysAsserted(r.cam)
           THEN /\ camera' = r.cam
                /\ call' = [op |-> "input", event |-> event,
                            is_hovering |-> is_hovering, ret |-> r.ret]
                /\ pc' = pc
           ELSE /\ camera' = [r.cam EXCEPT !.rays = << >>]
                /\ call' = [op |-> "input", event |-> event,
                            is_hovering |-> is_hovering]
                /\ pc' = "panic"
    /\ UNCHANGED <<size, show_egui, final_image, final_image_data, path_acc,
                   acc_counter, settings, scene, rows, writes, moved, last>>
    /\ UNCHANGED <<traceVars, pixel>>

CamUpdate(frame_time) ==
    /\ pc = "idle"
    /\ LET r == CameraUpdate(camera, frame_time)
       IN  /\ InTravel(r.cam.position)
           /\ camera' = r.cam
           /\ call' = [op |-> "update", frame_time |-> frame_time, ret |-> r.ret]
    /\ UNCHANGED <<size, show_egui, final_image, final_image_data, path_acc,
                   acc_counter, settings, scene, pc, rows, writes, moved, last>>
    /\ UNCHANGED <<traceVars, pixel>>

\* Camera::resize.  With width 0 and a height that is not, the aspect ratio
\* is 0.0 and Perspective3::new (nalgebra) fails its assertion that the
\* aspect ratio is not zero, after the viewport size was stored.
CamResize(new_size) ==
    /\ pc = "idle"
    /\ IF new_size[1] = 0 /\ new_size[2] # 0
       THEN /\ camera' = [camera EXCEPT !.viewport_size = new_size]
            /\ pc' = "panic"
       ELSE /\ camera' = CameraResize(camera, new_size)
            /\ pc' = pc
    /\ call' = [op |-> "resize", new_size |-> new_size]
    /\ UNCHANGED <<size, show_egui, final_image, final_image_data, path_acc,
                   acc_counter, settings, scene, rows, writes, moved, last>>
    /\ UNCHANGED <<traceVars, pixel>>

NextCamera ==
    \/ \E event \in CameraEvents, is_hovering \in BOOLEAN : CamInput(event, is_hovering)
    \/ \E frame_time \in FrameTimes : CamUpdate(frame_time)
    \/ \E new_size \in ViewportSizes : CamResize(new_size)

SpecCamera == Init /\ [][NextCamera]_vars

\* The rays of a camera with the forward direction and viewport given
RaysOf(position, forward, viewport_size) ==
    [i \in 1..(viewport_size[1] * viewport_size[2]) |->
        RayDirection(viewport_size, [eye |-> position, dir |-> forward],
                     viewport_size[1], i - 1)]

ZeroArea(sz) == sz[1] = 0 \/ sz[2] = 0

\* C17: after any sequence of input, update and resize the ray array is the
\* one built from the camera's current forward direction, projection and
\* viewport size, and the projection is the one of the current viewport.
C17_RaysCurrent ==
    pc = "idle" =>
        /\ camera.rays = RaysOf(camera.position, camera.forward, camera.viewport_size)
        /\ camera.projection = camera.viewport_size
        /\ camera.view = [eye |-> camera.position, dir |-> camera.forward]

\* The camera was turned round, moved and resized
C17_Witness ==
    /\ pc = "idle"
    /\ camera.forward = <<0, 0, -1>>
    /\ camera.position # CameraNew(InitialSize).position
    /\ camera.viewport_size = <<1, 2>>
    /\ call.op = "resize"

\* C18: Camera::resize with a width or height of zero changes nothing of the
\* camera (viewport size, projection, rays) and does not fail.
C18_ZeroResizeNoOp ==
    [][(call'.op = "resize" /\ ZeroArea(call'.new_size)) =>
            (camera' = camera /\ pc' = "idle")]_vars

\* C19: Camera::resize with the camera's viewport size leaves the ray array
\* as it was, element by element.
C19_SameSizeKeepsRays ==
    [][(call'.op = "resize" /\ call'.new_size = camera.viewport_size) =>
            /\ Len(camera'.rays) = Len(camera.rays)
            /\ \A i \in 1..Len(camera.rays) : camera'.rays[i] = camera.rays[i]]_vars

\* A camera that was turned round has been resized to its own size
C19_Witness ==
    /\ call.op = "resize"
    /\ call.new_size = <<2, 2>>
    /\ camera.viewport_size = <<2, 2>>
    /\ camera.forward = <<0, 0, -1>>
    /\ camera.rays # CameraNew(<<2, 2>>).rays
    /\ Len(camera.rays) = 4

\* C24: every ray direction reevaluate_rays produces, for every pixel and
\* after any rotations and resizes, has a squared magnitude within
\* [0.9, 1.1]: the assertion of reevaluate_rays does not fail.
C24_RaysUnit ==
    /\ RaysAsserted(camera)
    /\ (call.op = "input" => pc # "panic")

-----------------------------------------------------------------------------
(* Camera::input applied to one event *)

InputEvents ==
    {CursorMoved(p) : p \in MousePositions}
    \cup {KeyboardInput(st, k) : st \in {"Pressed", "Released"}, k \in InputKeys}
    \cup {MouseInput(st, b) : st \in {"Pressed", "Released"}, b \in {"Left", "Right"}}
    \cup {[type |-> "Focused"]}

InitInput ==
    /\ InitApp
    /\ InitIdleTrace
    /\ pixel = [status |-> "none"]
    /\ call \in [op : {"pending"}, event : InputEvents, is_hovering : BOOLEAN]

InputCall ==
    /\ call.op = "pending"
    /\ LET r == CameraInput(camera, call.event, call.is_hovering)
       IN  /\ camera' = r.cam
           /\ call' = [call EXCEPT !.op = "input"] @@ [ret |-> r.ret]
    /\ UNCHANGED <<size, show_egui, final_image, final_image_data, path_acc,
                   acc_counter, settings, scene, pc, rows, writes, moved, last>>
    /\ UNCHANGED <<traceVars, pixel>>

NextInput == InputCall

SpecInput == InitInput /\ [][NextInput]_vars

\* C20: Camera::input returns true for CursorMoved while the overlay is not
\* hovered, for a press or release of W, A, S, D, Space or LShift and for a
\* press of C, and false for every other event.
C20_InputReturn ==
    call.op = "input" =>
        (call.ret <=>
            \/ call.event.type = "CursorMoved" /\ ~call.is_hovering
            \/ /\ call.event.type = "KeyboardInput"
               /\ \/ call.event.key \in {"W", "A", "S", "D", "Space", "LShift"}
                  \/ call.event.key = "C" /\ call.event.state = "Pressed")

\* The release of LShift was consumed
C20_Witness ==
    /\ call.op = "input"
    /\ call.event = KeyboardInput("Released", "LShift")
    /\ call.ret
    /\ ~camera.inputs[6]

-----------------------------------------------------------------------------
(* The camera's keys: any sequence of events other than pointer motion *)

KeyEvents == {e \in InputEvents : e.type # "CursorMoved"}

\* The pointer is away from the overlay: is_hovering matters to pointer
\* motion only
NextKeys == \E event \in KeyEvents : CamInput(event, FALSE)

SpecKeys == Init /\ [][NextKeys]_vars

\* The position in Camera.inputs of the key of a keyboard event, 0 for any
\* other event
FlagOf(event) ==
    IF event.type # "KeyboardInput" THEN 0
    ELSE CASE event.key = "W" -> 1
           [] event.key = "A" -> 2
           [] event.key = "S" -> 3
           [] event.key = "D" -> 4
           [] event.key = "Space" -> 5
           [] event.key = "LShift" -> 6
           [] OTHER -> 0

\* C21: an event for one of the keys W, A, S, D, Space, LShift leaves its
\* flag true exactly when it is a press and leaves every other flag as it
\* was; grab_mouse flips at a press of C and at no other event.  (No flag is
\* set before the first event, so each flag tells whether the last event of
\* its key was a press.)
C21_FlagsFollowKeys ==
    [][(call'.op = "input") =>
            (/\ \A i \in 1..6 :
                    camera'.inputs[i] =
                        IF FlagOf(call'.event) = i
                        THEN (call'.event.state = "Pressed")
                        ELSE camera.inputs[i]
             /\ camera'.grab_mouse =
                    IF /\ call'.event.type = "KeyboardInput"
                       /\ call'.event.key = "C"
                       /\ call'.event.state = "Pressed"
                    THEN ~camera.grab_mouse
                    ELSE camera.grab_mouse)]_vars

\* C was released after a press of it turned grab_mouse on, while LShift is
\* held and W is not
C21_Witness ==
    /\ call.op = "input"
    /\ call.event = KeyboardInput("Released", "C")
    /\ camera.grab_mouse
    /\ camera.inputs[6]
    /\ ~camera.inputs[1]

-----------------------------------------------------------------------------
(* Camera::update applied to a camera that was turned and whose keys are   *)
(* held in any combination                                                 *)

InitUpdate ==
    /\ InitWindow
    /\ InitIdleTrace
    /\ pixel = [status |-> "none"]
    /\ camera \in {[Turned(CameraNew(InitialSize), p) EXCEPT !.inputs = held] :
                        p \in UpdateTurns, held \in [1..6 -> BOOLEAN]}
    /\ call \in [op : {"pending"}, frame_time : UpdateTimes]

UpdateCall ==
    /\ call.op = "pending"
    /\ LET r == CameraUpdate(camera, call.frame_time)
       IN  /\ camera' = r.cam
           /\ call' = [op |-> "update", frame_time |-> call.frame_time, ret |-> r.ret]
    /\ UNCHANGED <<size, show_egui, final_image, final_image_data, path_acc,
                   acc_counter, settings, scene, pc, rows, writes, moved, last>>
    /\ UNCHANGED <<traceVars, pixel>>

NextUpdate == UpdateCall

SpecUpdate == InitUpdate /\ [][NextUpdate]_vars

\* C22: Camera::update returns true exactly when the position after the
\* call differs from the position before it.
C22_ReturnsWhetherMoved ==
    [][(call'.op = "update") =>
            (call'.ret <=> camera'.position # camera.position)]_vars

\* 1 for a held key, 0 for one that is not
Held(cam, i) == IF cam.inputs[i] THEN 1 ELSE 0

\* C23: the position moves by movement_speed (5 m/s) times
\* min(frame_time / 1000, 1 / 60) s along the axis of each held key (forward
\* for W, back for S, left for A, right for D, up for Space, down for
\* LShift), which is never more than 5/60 m (50 units of 1/600 m) and is
\* exactly that for every frame_time of 17 ms or more.
C23_ClampedStep ==
    [][(call'.op = "update") =>
            LET ms == call'.frame_time
                reach == IF ms * 60 < 1000 THEN (5 * ms * 600) \div 1000 ELSE 50
                right == Cross(y_axis, camera.forward)
                along == Add(Add(Scale(camera.forward, Held(camera, 1) - Held(camera, 3)),
                                 Scale(right, Held(camera, 4) - Held(camera, 2))),
                             Scale(y_axis, Held(camera, 5) - Held(camera, 6)))
            IN  /\ reach <= 50
                /\ ms >= 17 => reach = 50
                /\ camera'.position = Add(camera.position, Scale(along, reach))]_vars

\* W is held alone during a frame of a second: the camera is 5/60 m further
\* along its forward direction
C23_Witness ==
    /\ call.op = "update"
    /\ call.frame_time = 1000
    /\ camera.inputs = <<TRUE, FALSE, FALSE, FALSE, FALSE, FALSE>>
    /\ camera.forward = <<1, 0, 0>>
    /\ camera.position = Add(CameraNew(InitialSize).position, <<50, 0, 0>>)

-----------------------------------------------------------------------------
(* The event loop with its pointer events told apart: the pointer moves,   *)
(* over the overlay or not, between frames that accumulate.                *)

AppInputCall(event, consumed, is_hovering) ==
    /\ pc = "idle"
    /\ ApplicationInput(event, consumed, is_hovering)
    /\ call' = [op |-> "app_input", event |-> event, consumed |-> consumed,
                is_hovering |-> is_hovering]
    /\ UNCHANGED pixel

NextPointer ==
    \/ \E new_size \in ViewportSizes : AppResize(new_size)
    \/ \E p \in MousePositions, consumed \in BOOLEAN, is_hovering \in BOOLEAN :
            AppInputCall(CursorMoved(p), consumed, is_hovering)
    \/ \E state \in {"Pressed", "Released"} :
            AppInputCall(KeyboardInput(state, "C"), FALSE, FALSE)
    \/ \E frame_time \in FrameTimes : AppUpdate(frame_time)
    \/ LanternUpdateBegin
    \/ \E y \in DOMAIN rows : RowStep(y)
    \/ LanternUpdateEnd
    \/ AppUpdateEnd
    \/ AppRender([kind |-> "none"])

SpecPointer == Init /\ [][NextPointer]_vars

\* C25: a CursorMoved event that the overlay consumed, or that arrives while
\* the pointer is over the overlay, changes nothing of the camera (forward,
\* view, rays, last_mouse) and does not reset the sample counter; when it was
\* not consumed, Camera::input returns false for it.
C25_HoverDoesNotRotate ==
    [][(/\ last'.op = "input"
        /\ call'.op = "app_input"
        /\ call'.event.type = "CursorMoved"
        /\ (call'.consumed \/ call'.is_hovering)) =>
            (/\ camera' = camera
             /\ acc_counter' = acc_counter
             /\ pc' = "idle"
             /\ last'.how = IF call'.consumed THEN "egui" ELSE "ignored")]_vars

\* The pointer has moved while over the overlay, after frames were summed
C25_Witness ==
    /\ last.op = "input"
    /\ call.op = "app_input"
    /\ call.event = CursorMoved(<<2, 0>>)
    /\ call.is_hovering
    /\ ~call.consumed
    /\ camera.last_mouse = <<0, 0>>
    /\ acc_counter > 1

\* C26: an Application::update whose camera has grab_mouse set leaves
\* last_mouse at the centre of the window, (width / 2, height / 2) in whole
\* pixels; an update whose camera has not leaves last_mouse as it was.
C26_GrabRecentres ==
    [][(/\ (pc' = "lantern_update" \/ pc' = "rows" \/ pc' = "grab")
            => camera'.last_mouse = camera.last_mouse
        /\ (pc = "grab" /\ pc' = "render")
            => camera'.last_mouse =
                    IF camera.grab_mouse THEN <<size[1] \div 2, size[2] \div 2>>
                    ELSE camera.last_mouse)]_vars

\* The update of a window one pixel wide has put the pointer at (0, 1),
\* away from where the last pointer event left it
C26_Witness ==
    /\ pc = "render"
    /\ camera.grab_mouse
    /\ size = <<1, 2>>
    /\ camera.last_mouse = <<0, 1>>
    /\ call.op = "app_input"
    /\ call.event.type = "CursorMoved"
    /\ ~call.consumed
    /\ ~call.is_hovering

-----------------------------------------------------------------------------
(* The sample counter over a long run (src/src/lantern/mod.rs, lines 36 and *)
(* 66-110).  acc_counter is a u32, kept here as its two 16-bit halves      *)
(* <<high, low>>; the running sum of a pixel is kept as the sums of its    *)
(* four channels for a pixel that shows the sky, in tenths, its alpha      *)
(* being an f32 that counts samples exactly up to 2^24 and stays there.    *)

Half == 65536

\* The largest f32 up to which every whole number is an f32
F32Whole == 16777216

U32(high, low) == <<high, low>>

\* acc_counter + 1 as the processor computes it
WrappingAdd(c) ==
    IF c[2] < Half - 1 THEN U32(c[1], c[2] + 1)
    ELSE IF c[1] < Half - 1 THEN U32(c[1] + 1, 0)
    ELSE U32(0, 0)

\* acc_counter is u32::MAX
AtMax(c) == c = U32(Half - 1, Half - 1)

\* *path_ref += color for the alpha of the sum (alpha of color: 1.0)
AlphaAdd(samples) == IF samples < F32Whole THEN samples + 1 ELSE samples

\* The sum of the four channels after `samples` samples of the sky, in tenths
SkySum(samples) == <<6 * samples, 7 * samples, 9 * samples, 10 * samples>>

\* An f32 quotient n / c for a sum n and a counter c: finite, infinite or NaN
Quotient(n, c) ==
    IF c # U32(0, 0) THEN [class |-> "finite", num |-> n, den |-> c]
    ELSE IF n = 0 THEN [class |-> "nan"] ELSE [class |-> "inf"]

\* accumulated = *path_ref / (self.acc_counter as f32), line 90
Accumulated(sum, c) == [k \in 1..4 |-> Quotient(sum[k], c)]

\* accumulated.max(): the largest channel (the channels of one pixel are all
\* finite over the same counter, or none is)
LargestOf(v) ==
    IF \E k \in 1..4 : v[k].class = "nan" THEN [class |-> "nan"]
    ELSE IF \E k \in 1..4 : v[k].class = "inf" THEN [class |-> "inf"]
    ELSE CHOOSE m \in {v[k] : k \in 1..4} : \A k \in 1..4 : v[k].num <= m.num

\* A channel of accumulated / accumulated.max(), line 93, as the fraction
\* [num, den] of two sums over the same counter
Normalised(channel, largest) ==
    IF channel.class = "finite" /\ largest.class = "finite" THEN
        IF largest.num # 0
        THEN [class |-> "finite", num |-> channel.num, den |-> largest.num]
        ELSE IF channel.num = 0 THEN [class |-> "nan"] ELSE [class |-> "inf"]
    ELSE IF channel.class = "finite" /\ largest.class = "inf"
        THEN [class |-> "finite", num |-> 0, den |-> 1]
    ELSE [class |-> "nan"]

\* A run whose counter is followed
InRun(c) ==
    \/ c[1] = 0 /\ c[2] <= MaxRun
    \/ c[1] = Half - 1 /\ c[2] >= Half - 1 - MaxRun

\* The renderer at its start, and after it has accumulated frames without a
\* reset until the counter is MaxRun short of u32::MAX.  `checked` tells
\* whether the build checks integer overflow (debug) or not (release).
InitCounter ==
    /\ InitApp
    /\ InitIdleTrace
    /\ pixel = [status |-> "none"]
    /\ call \in {[op |-> "new", counter |-> start.counter, samples |-> start.samples,
                  checked |-> checked] :
                    start \in {[counter |-> U32(0, 1), samples |-> 0],
                               [counter |-> U32(Half - 1, Half - 1 - MaxRun),
                                samples |-> F32Whole]},
                    checked \in BOOLEAN}

\* Lantern::update for one pixel: the lazy zeroing, the addition, the
\* division and the normalisation, then the counter
CounterFrame(should_accumulate) ==
    /\ pc = "idle"
    /\ InRun(call.counter)
    /\ LET zeroed == IF call.counter = U32(0, 1) THEN 0 ELSE call.samples
           samples == AlphaAdd(zeroed)
           accumulated == Accumulated(SkySum(samples), call.counter)
           largest == LargestOf(accumulated)
           shown == [k \in 1..4 |-> Normalised(accumulated[k], largest)]
       IN  IF should_accumulate /\ AtMax(call.counter) /\ call.checked
           THEN /\ pc' = "panic"
                /\ call' = [call EXCEPT !.op = "update", !.samples = samples]
                               @@ [divisor |-> largest, shown |-> shown]
           ELSE /\ pc' = pc
                /\ call' = [op |-> "update",
                            counter |-> IF should_accumulate
                                        THEN WrappingAdd(call.counter)
                                        ELSE U32(0, 1),
                            samples |-> samples,
                            checked |-> call.checked,
                            divisor |-> largest,
                            shown |-> shown]
    /\ UNCHANGED <<size, show_egui, final_image, final_image_data, path_acc,
                   acc_counter, settings, camera, scene, rows, writes, moved, last>>
    /\ UNCHANGED <<traceVars, pixel>>

\* Lantern::reset_counter
CounterReset ==
    /\ pc = "idle"
    /\ call' = [op |-> "reset", counter |-> U32(0, 1), samples |-> call.samples,
                checked |-> call.checked]
    /\ UNCHANGED <<size, show_egui, final_image, final_image_data, path_acc,
                   acc_counter, settings, camera, scene, pc, rows, writes, moved, last>>
    /\ UNCHANGED <<traceVars, pixel>>

NextCounterRun ==
    \/ \E should_accumulate \in BOOLEAN : CounterFrame(should_accumulate)
    \/ CounterReset

SpecCounter == InitCounter /\ [][NextCounterRun]_vars

\* C28: the sample counter is at least 1 in every state, and its increment
\* in Lantern::update neither overflows nor wraps to 0, however many frames
\* are accumulated one after the other.
C28_CounterStaysPositive ==
    /\ call.counter # U32(0, 0)
    /\ pc # "panic"

\* C30: in every Lantern::update the largest channel of running sum /
\* counter, by which the pixel is divided, is a positive number, the
\* division is not one by zero, and the largest channel of the normalised
\* pixel is 1.
C30_NormalisedByPositive ==
    call.op = "update" =>
        /\ call.divisor.class = "finite"
        /\ call.divisor.num > 0
        /\ \A k \in 1..4 :
                /\ call.shown[k].class = "finite"
                /\ call.shown[k].num <= call.shown[k].den
        /\ \E k \in 1..4 : call.shown[k].num = call.shown[k].den

-----------------------------------------------------------------------------
(* per_pixel applied to one camera ray of one scene *)

\* A sphere at the origin that the camera rays hit, with the mirror, the
\* rough and a missing material, and two spheres that only a bounce reaches
PixelSpheres ==
    {Sphere(<<0, 0, 0>>, 1, 0), Sphere(<<0, 0, 0>>, 1, 1), Sphere(<<0, 0, 0>>, 1, 2),
     Sphere(<<0, 4, -5>>, 2, 0), Sphere(<<0, 0, -8>>, 2, 1)}

\* A mirror and a rough material
PixelMaterials == <<Material(<<2, 3, 10>>, 0, 0), Material(<<10, 0, 10>>, 10, 0)>>

InitPixel ==
    /\ InitApp
    /\ InitIdleTrace
    /\ call = [op |-> "none"]
    /\ pixel \in [status : {"pending"},
                  scene : [spheres : SeqsUpTo(PixelSpheres, MaxSpheres),
                           materials : {PixelMaterials}],
                  ray : PixelRays,
                  draws : [1..BOUNCE_LIMIT -> PixelDraws]]

PixelCall ==
    /\ pixel.status = "pending"
    /\ pixel' = [pixel EXCEPT !.status = "called"]
                    @@ [value |-> PerPixel(pixel.scene, pixel.ray, pixel.draws)]
    /\ UNCHANGED <<appVars, traceVars, call>>

NextPixel == PixelCall

SpecPixel == InitPixel /\ [][NextPixel]_vars

-----------------------------------------------------------------------------
(* trace_ray's claims *)

\* The ray's origin relative to the sphere's centre
Relative(sphere) == Sub(ray.origin, sphere.position)

\* The origin is strictly inside the sphere
OriginInside(sphere) ==
    magnitude_squared(Relative(sphere)) < sphere.radius * sphere.radius

\* The ray points away from the sphere's centre
PointsAway(sphere) == Dot(Relative(sphere), ray.direction) > 0

\* The ray's line meets the sphere: the centre is no farther from the line
\* than the radius, |o x d|^2 <= r^2 |d|^2
LineMeets(sphere) ==
    magnitude_squared(Cross(Relative(sphere), ray.direction))
        <= sphere.radius * sphere.radius * magnitude_squared(ray.direction)

\* A valid hit: the near intersection of the line exists and is not behind
\* the origin
ValidHit(sphere) ==
    LineMeets(sphere) /\ ~OriginInside(sphere) /\ ~PointsAway(sphere)

\* C9: trace_ray returns None exactly when no sphere of the list has a valid
\* hit; otherwise it returns a sphere with a valid hit and its near-root
\* distance, no sphere with a valid hit is nearer, and every earlier sphere
\* with a valid hit is strictly farther.
C9_NearestEarliest ==
    hit.status = "returned" =>
        /\ hit.value.some <=> \E i \in 1..Len(spheres) : ValidHit(spheres[i])
        /\ hit.value.some =>
            /\ hit.value.sphere \in 1..Len(spheres)
            /\ ValidHit(spheres[hit.value.sphere])
            /\ hit.value.distance = NearRoot(ray, spheres[hit.value.sphere])
            /\ \A j \in 1..Len(spheres) :
                ValidHit(spheres[j]) =>
                    /\ ~IsGreater(hit.value.distance, NearRoot(ray, spheres[j]))
                    /\ j < hit.value.sphere =>
                        IsGreater(NearRoot(ray, spheres[j]), hit.value.distance)

\* Two different spheres are hit at the same distance and the first is returned
C9_Witness ==
    /\ hit.status = "returned"
    /\ Len(spheres) = 2
    /\ spheres[1] # spheres[2]
    /\ ValidHit(spheres[1])
    /\ ValidHit(spheres[2])
    /\ ~IsGreater(NearRoot(ray, spheres[1]), NearRoot(ray, spheres[2]))
    /\ ~IsGreater(NearRoot(ray, spheres[2]), NearRoot(ray, spheres[1]))
    /\ hit.value.some
    /\ hit.value.sphere = 1

\* C10: a distance trace_ray returns is not negative, and the sphere it
\* returns neither holds the ray's origin strictly inside nor lies behind a
\* ray that points away from its centre.
C10_NoNegativeDistance ==
    (hit.status = "returned" /\ hit.value.some) =>
        /\ hit.value.distance.nb >= 0
        /\ hit.value.distance.nb * hit.value.distance.nb >= hit.value.distance.disc
        /\ hit.value.distance.disc >= 0
        /\ ~OriginInside(spheres[hit.value.sphere])
        /\ ~PointsAway(spheres[hit.value.sphere])

\* The origin is inside the first sphere, the second lies behind on the ray's
\* line, and nothing is hit
C10_Witness ==
    /\ hit.status = "returned"
    /\ Len(spheres) = 2
    /\ OriginInside(spheres[1])
    /\ ~OriginInside(spheres[2])
    /\ PointsAway(spheres[2])
    /\ LineMeets(spheres[2])
    /\ ~hit.value.some

\* C11: the payload of a hit holds the near-root distance, the position
\* ray.origin + distance * ray.direction and the normal
\* (position - sphere.position) / radius; the ray from (0,0,-2) along (0,0,1)
\* hits the sphere of radius 0.5 at the origin at distance 1.5 with the normal
\* (0,0,-1) (lengths here in half metres).
C11_Payload ==
    (hit.status = "returned" /\ hit.value.some) =>
        LET sphere == spheres[hit.value.sphere]
            t == hit.value.distance
            d == t.disc
        IN  /\ t = NearRoot(ray, sphere)
            /\ \A k \in 1..3 :
                /\ ElemEq(hit.value.position[k],
                          Along(ray.origin[k], ray.direction[k], t), d)
                /\ ElemEq(hit.value.normal[k],
                          ElemDivInt(ElemAddInt(hit.value.position[k],
                                                0 - sphere.position[k]),
                                     sphere.radius), d)
            /\ (/\ ray = [origin |-> <<0, 0, -4>>, direction |-> <<0, 0, 1>>]
                /\ sphere = Sphere(<<0, 0, 0>>, 1, 0)) =>
                    /\ ElemEq(Elem(t.nb, 0 - 1, t.den), Elem(3, 0, 1), d)
                    /\ ElemEq(hit.value.normal[1], Elem(0, 0, 1), d)
                    /\ ElemEq(hit.value.normal[2], Elem(0, 0, 1), d)
                    /\ ElemEq(hit.value.normal[3], Elem(0 - 1, 0, 1), d)

-----------------------------------------------------------------------------
(* per_pixel's claims *)

\* per_pixel returned a colour for the pixel
Coloured == pixel.status = "called" /\ pixel.value.status = "returned"

\* The camera ray has no valid hit on the sphere: its line passes the sphere
\* by, or its origin is strictly inside, or it points away from the centre
CameraRayMisses(sphere) ==
    LET relative == Sub(pixel.ray.origin, sphere.position)
    IN  \/ magnitude_squared(Cross(relative, pixel.ray.direction))
               > sphere.radius * sphere.radius * magnitude_squared(pixel.ray.direction)
        \/ magnitude_squared(relative) < sphere.radius * sphere.radius
        \/ Dot(relative, pixel.ray.direction) > 0

\* C12: per_pixel traces at most two rays.  When the first ray misses, the
\* colour is the sky (0.6, 0.7, 0.9) alone and one ray was traced; when the
\* second misses, the sky enters the colour times 0.7 and nothing else is
\* traced; when no ray misses, no sky enters.  A camera ray that misses
\* every sphere gives exactly (0.6, 0.7, 0.9) with alpha 1.
C12_SkyOnFirstMiss ==
    Coloured =>
        LET v == pixel.value
            n == Len(v.hits)
        IN  /\ v.traced <= 2
            /\ v.traced \in {n, n + 1}
            /\ (v.traced = 1 /\ n = 0) => v.color.sky = RVec(<<6, 7, 9>>, 10)
            /\ (v.traced = 2 /\ n = 1) => v.color.sky = RVec(<<42, 49, 63>>, 100)
            /\ v.traced = n => (n = 2 /\ v.color.sky = RVec(<<0, 0, 0>>, 1))
            /\ Len(v.color.lit) = n
            /\ (\A i \in 1..Len(pixel.scene.spheres) :
                    CameraRayMisses(pixel.scene.spheres[i]))
                => /\ v.color = [sky |-> RVec(<<6, 7, 9>>, 10), lit |-> << >>]
                   /\ v.alpha = 1
                   /\ v.traced = 1

\* The camera ray hits a sphere and the bounce misses every sphere: the sky
\* enters the colour times 0.7
C12_Witness ==
    /\ Coloured
    /\ Len(pixel.value.hits) = 1
    /\ pixel.value.traced = 2
    /\ pixel.value.color.sky = RVec(<<42, 49, 63>>, 100)

\* The hits of the pixel from which a bounce was traced
Bounced(v) == {k \in 1..Len(v.hits) : "outgoing" \in DOMAIN v.hits[k]}

\* d - 2 (d . n) n for the normal n, up to a positive factor
Mirrored(d, n) ==
    Primitive(Sub(Scale(d, Dot(n.num, n.num)), Scale(n.num, 2 * Dot(n.num, d))))

\* C13: a bounce off a material of roughness 0 leaves along the mirror
\* reflection of the incoming direction about the normal, and when every
\* bounce of a pixel is off such a material, evaluating the pixel with any
\* other random vectors gives the same colour.
C13_MirrorAtZeroRoughness ==
    Coloured =>
        LET v == pixel.value
        IN  /\ \A k \in Bounced(v) :
                v.hits[k].roughness = 0 =>
                    v.hits[k].outgoing = Mirrored(v.hits[k].incoming, v.hits[k].normal)
            /\ (\A k \in Bounced(v) : v.hits[k].roughness = 0) =>
                \A other \in [1..BOUNCE_LIMIT -> PixelDraws] :
                    LET w == PerPixel(pixel.scene, pixel.ray, other)
                    IN  /\ w.status = "returned"
                        /\ w.color = v.color
                        /\ w.alpha = v.alpha

\* A ray bounces obliquely off a mirror while a non-zero random vector is
\* drawn, and the bounce hits a second sphere
C13_Witness ==
    /\ Coloured
    /\ Len(pixel.value.hits) = 2
    /\ pixel.value.hits[1].roughness = 0
    /\ pixel.draws[1] # <<0, 0, 0>>
    /\ Cross(pixel.value.hits[1].incoming, pixel.value.hits[1].outgoing) # <<0, 0, 0>>

\* C14: per_pixel does not panic when the sphere a ray hits has a
\* material_index outside the material list: it returns a colour.
C14_NoPanicOnMissingMaterial ==
    (/\ pixel.status = "called"
     /\ \E i \in 1..Len(pixel.scene.spheres) :
            pixel.scene.spheres[i].material_index >= Len(pixel.scene.materials))
        => pixel.value.status = "returned"

====
